---- MODULE Spec2Model ----
(***************************************************************************)
(* A model of the ICRC-37+ NFT canister                                    *)
(* (src/icrc37plus_token_backend/src/lib.rs): the thread_local state, the  *)
(* update handlers that change it and the helpers they call.               *)
(*                                                                         *)
(* A canister executes one message at a time, so a handler is atomic.  The *)
(* batch handlers (icrc7_transfer, icrc37_approve_tokens,                  *)
(* icrc37_transfer_from) map a closure over their argument vector; the     *)
(* model keeps the handler's position in `call` and runs the closure once  *)
(* per element.  `call` is the message being executed and the reply built  *)
(* for it: no other handler (nor the clock) moves until the reply has left *)
(* (Return).                                                               *)
(*                                                                         *)
(* Option<T> is a sequence: <<>> for None and <<x>> for Some(x).           *)
(* Fields the handlers only copy and never read back (NFT metadata, memo   *)
(* bytes, asset bytes, the timestamps stored in records, the collection's  *)
(* name/symbol/description/base_url/logo) are left out.                    *)
(***************************************************************************)
EXTENDS Integers, Sequences, FiniteSets, TLC

\* ------------------------------------------------------------------ bounds
MaxMint == 2
MaxTime == 1
MaxTx == 2
MaxBatch == 2

\* ------------------------------------------------------- program constants
DEFAULT_TAKE_VALUE == 10
MAX_TAKE_VALUE == 100

\* ------------------------------------------------------------------ inputs
Principals == {"p1", "p2", "p3"}
Deployer == "p1"
CanisterId == "canister"
TokenIds == 1..(MaxMint + 1)
Times == 0..MaxTime

None == <<>>
Some(x) == <<x>>
IsSome(o) == o # <<>>
Unwrap(o) == o[1]

Ok(v) == <<"Ok", v>>
Err(e) == <<"Err", e>>
IsOk(r) == r[1] = "Ok"
IsErr(r, e) == r[1] = "Err" /\ r[2] = e
Last(s) == s[Len(s)]

VARIABLES
    now,                    \* ic_cdk::api::time()
    nfts,                   \* NFTS: token id -> [owner, transfer_history]
    tokens,                 \* TOKENS: token id -> principal
    token_assets,           \* TOKEN_ASSETS: token id -> asset id
    owner_tokens,           \* OWNER_TOKENS: principal -> Vec of token ids
    nft_counter,            \* NFT_COUNTER.counter
    token_approvals,        \* TOKEN_APPROVALS: <<token id, spender>> -> ApprovalInfo
    collection_approvals,   \* COLLECTION_APPROVALS: <<owner, spender>> -> ApprovalInfo
    transactions,           \* TRANSACTIONS
    transaction_id_counter, \* TRANSACTION_ID_COUNTER
    details,                \* COLLECTION_DETAILS
    admins,                 \* ADMINS: principal -> AdminType
    whitelist,              \* WHITELIST: principal -> bool
    assets,                 \* ASSETS: the keys stored
    call                    \* the handler running or last run, and its results

ledger == <<nfts, tokens, token_assets, owner_tokens, nft_counter>>
approvals == <<token_approvals, collection_approvals>>
txlog == <<transactions, transaction_id_counter>>
config == <<details, admins, whitelist, assets>>
vars == <<now, ledger, approvals, txlog, config, call>>

\* ------------------------------------------------------------ construction
MintSchedule(name, bundle_prices, start_time, end_time, active, whitelist_only) ==
    [name |-> name, bundle_prices |-> bundle_prices, start_time |-> start_time,
     end_time |-> end_time, active |-> active, whitelist_only |-> whitelist_only]

DefaultCollectionDetails ==
    [max_supply |-> Some(1000),
     pricing_enabled |-> FALSE,
     mint_schedules |-> <<MintSchedule("Standard", <<>>, None, None, FALSE, FALSE),
                          MintSchedule("Whitelist", <<>>, None, None, FALSE, TRUE)>>]

\* No message is being executed.
NoCall == [op |-> "none", status |-> "idle", caller |-> CanisterId, arg |-> None,
           results |-> <<>>]

\* The handler `op` has run for `caller` and replies `results`.
Returned(op, caller, arg, results) ==
    [op |-> op, status |-> "replying", caller |-> caller, arg |-> arg, results |-> results]

Idle == call.status = "idle"

\* #[init]: the installer becomes the first system admin and is whitelisted;
\* every thread_local has its declared initial value.
init ==
    /\ now = 0
    /\ nfts = << >>
    /\ tokens = << >>
    /\ token_assets = << >>
    /\ owner_tokens = << >>
    /\ nft_counter = 0
    /\ token_approvals = << >>
    /\ collection_approvals = << >>
    /\ transactions = << >>
    /\ transaction_id_counter = 0
    /\ details = DefaultCollectionDetails
    /\ admins = (Deployer :> "System")
    /\ whitelist = (Deployer :> TRUE)
    /\ assets = {}
    /\ call = NoCall

\* The owners of the tokens 1..Len(o) held in stable memory at an upgrade.
RestoredOwners == {<<"p1", "p1">>}

\* The collection details held in stable memory: minting is switched on and the
\* Standard schedule is active with one price tier.
RestoredCollectionDetails ==
    [max_supply |-> Some(1000),
     pricing_enabled |-> TRUE,
     mint_schedules |-> <<MintSchedule("Standard", <<[quantity |-> 1, price |-> 10]>>,
                                       None, None, TRUE, FALSE),
                          MintSchedule("Whitelist", <<>>, None, None, FALSE, TRUE)>>]

IndexOf(o, p) == SelectSeq([i \in 1..Len(o) |-> i], LAMBDA i : o[i] = p)

\* #[post_upgrade], newest schema: the thirteen saved components are put back;
\* TOKENS, TOKEN_ASSETS and NFT_COUNTER are not part of the tuple and keep their
\* declared initial values.  The stable memory read here holds a ledger of
\* Len(o) tokens with a consistent owner index, no approvals, an empty log and
\* a collection open for minting.
post_upgrade(o) ==
    /\ now = 0
    /\ nfts = [t \in 1..Len(o) |-> [owner |-> o[t], transfer_history |-> <<>>]]
    /\ tokens = << >>
    /\ token_assets = << >>
    /\ owner_tokens = [p \in {o[t] : t \in 1..Len(o)} |-> IndexOf(o, p)]
    /\ nft_counter = 0
    /\ token_approvals = << >>
    /\ collection_approvals = << >>
    /\ transactions = << >>
    /\ transaction_id_counter = 0
    /\ details = RestoredCollectionDetails
    /\ admins = (Deployer :> "System")
    /\ whitelist = (Deployer :> TRUE)
    /\ assets = {}
    /\ call = NoCall

Init == init \/ \E o \in RestoredOwners : post_upgrade(o)

\* ---------------------------------------------------------- admin helpers
is_admin(user) == user \in DOMAIN admins

is_system_admin(user) == user \in DOMAIN admins /\ admins[user] = "System"

\* ------------------------------------------------------- transaction log
Transaction(kind, token_id, from, to, operation) ==
    [kind |-> kind, token_id |-> token_id, from |-> from, to |-> to,
     operation |-> operation, transaction_id |-> transaction_id_counter]

\* Fault variant: the id counter is not advanced.
record_transaction_same_id(kind, token_id, from, to, operation) ==
    /\ transaction_id_counter' = transaction_id_counter
    /\ transactions' = Append(transactions, Transaction(kind, token_id, from, to, operation))

\* Fault variant: the record is appended twice.
record_transaction_twice(kind, token_id, from, to, operation) ==
    /\ transaction_id_counter' = transaction_id_counter + 1
    /\ transactions' = Append(Append(transactions,
                                     Transaction(kind, token_id, from, to, operation)),
                              Transaction(kind, token_id, from, to, operation))

\* Fault variant: the new record overwrites the newest one.
record_transaction_overwriting(kind, token_id, from, to, operation) ==
    /\ transaction_id_counter' = transaction_id_counter + 1
    /\ transactions' = IF transactions = <<>>
                       THEN <<Transaction(kind, token_id, from, to, operation)>>
                       ELSE [transactions EXCEPT ![Len(transactions)] =
                                Transaction(kind, token_id, from, to, operation)]

record_transaction(kind, token_id, from, to, operation) ==
    /\ transaction_id_counter' = transaction_id_counter + 1
    /\ transactions' = Append(transactions, Transaction(kind, token_id, from, to, operation))

icrc3_get_transaction(transaction_id) ==
    LET hits == SelectSeq(transactions, LAMBDA tx : tx.transaction_id = transaction_id)
    IN  IF hits = <<>> THEN None ELSE Some(hits[1])

LogHasRoom == Len(transactions) < MaxTx

\* ---------------------------------------------------------------- queries
get_nft(token_id) == IF token_id \in DOMAIN nfts THEN Some(nfts[token_id]) ELSE None

icrc7_owner_of(token_id) ==
    IF token_id \in DOMAIN nfts THEN Some(nfts[token_id].owner) ELSE None

icrc7_balance_of(owner) ==
    IF owner \in DOMAIN owner_tokens THEN Len(owner_tokens[owner]) ELSE 0

icrc7_total_supply == Cardinality(DOMAIN nfts)

\* Iterator::take(n) on a sequence.
Take(seq, n) == SubSeq(seq, 1, IF n < Len(seq) THEN n ELSE Len(seq))

\* Iterator::skip(n) on a sequence.
Skip(seq, n) == SubSeq(seq, n + 1, Len(seq))

unwrap_or(option, default) == IF IsSome(option) THEN Unwrap(option) ELSE default

\* The orders in which iterating a HashMap with key set S may yield its keys:
\* the order is unspecified, any enumeration of S without repetition.
IterationOrders(S) ==
    {o \in [1..Cardinality(S) -> S] : \A i, j \in 1..Cardinality(S) : o[i] = o[j] => i = j}

\* icrc7_tokens: the keys of NFTS in iteration order, those >= prev, at most
\* take of them.  The value is the set of replies the iteration order allows.
icrc7_tokens(prev, take) ==
    LET take_amount == IF unwrap_or(take, DEFAULT_TAKE_VALUE) < MAX_TAKE_VALUE
                       THEN unwrap_or(take, DEFAULT_TAKE_VALUE) ELSE MAX_TAKE_VALUE
        start_id == unwrap_or(prev, 0)
    IN  {Take(SelectSeq(o, LAMBDA id : id >= start_id), take_amount) :
            o \in IterationOrders(DOMAIN nfts)}

\* icrc7_tokens_of: the owner's Vec in OWNER_TOKENS as stored, the ids > prev,
\* at most take of them.
icrc7_tokens_of(account, prev, take) ==
    LET take_amount == IF unwrap_or(take, DEFAULT_TAKE_VALUE) < MAX_TAKE_VALUE
                       THEN unwrap_or(take, DEFAULT_TAKE_VALUE) ELSE MAX_TAKE_VALUE
        start_id == unwrap_or(prev, 0)
        owned == IF account.owner \in DOMAIN owner_tokens
                 THEN owner_tokens[account.owner] ELSE <<>>
    IN  Take(SelectSeq(owned, LAMBDA id : id > start_id), take_amount)

\* Fault variant: the length asked for is not capped.
icrc3_get_transactions_uncapped(request) ==
    [transactions |-> Take(Skip(transactions, unwrap_or(request.start, 0)),
                           unwrap_or(request.length, 10)),
     total |-> Len(transactions)]

\* icrc3_get_transactions: skip(start).take(min(length, 100)) of the log, with
\* the length of the whole log.
icrc3_get_transactions(request) ==
    LET start == unwrap_or(request.start, 0)
        length == IF unwrap_or(request.length, 10) < 100
                  THEN unwrap_or(request.length, 10) ELSE 100
    IN  [transactions |-> Take(Skip(transactions, start), length),
         total |-> Len(transactions)]

get_mint_schedules == details.mint_schedules

\* Fault variant: an approval still counts at the instant it expires.
ExpiryCheckInclusive(expires_at, current_time) ==
    expires_at = None \/ Unwrap(expires_at) >= current_time

\* match expires_at { Some(expires_at) => expires_at > time(), None => true }
ExpiryCheck(expires_at, current_time) ==
    expires_at = None \/ Unwrap(expires_at) > current_time

NotExpired(expires_at) == ExpiryCheck(expires_at, now)

\* icrc37_is_approved as it answers when time() returns current_time.
is_approved_at(current_time, spender, from, token_id) ==
    LET token_approved ==
            /\ <<token_id, spender>> \in DOMAIN token_approvals
            /\ ExpiryCheck(token_approvals[<<token_id, spender>>].expires_at, current_time)
    IN  \/ token_approved
        \/ /\ <<from, spender>> \in DOMAIN collection_approvals
           /\ ExpiryCheck(collection_approvals[<<from, spender>>].expires_at, current_time)

\* Fault variant: a collection approval of any owner counts.
icrc37_is_approved_any_owner(spender, from, token_id) ==
    \/ /\ <<token_id, spender>> \in DOMAIN token_approvals
       /\ NotExpired(token_approvals[<<token_id, spender>>].expires_at)
    \/ \E o \in Principals :
          /\ <<o, spender>> \in DOMAIN collection_approvals
          /\ NotExpired(collection_approvals[<<o, spender>>].expires_at)


\* Fault variant: collection approvals are ignored.
icrc37_is_approved_token_only(spender, from, token_id) ==
    /\ <<token_id, spender>> \in DOMAIN token_approvals
    /\ NotExpired(token_approvals[<<token_id, spender>>].expires_at)

icrc37_is_approved(spender, from, token_id) == is_approved_at(now, spender, from, token_id)

\* ------------------------------------------------------- owner index
Retain(vec, token_id) == SelectSeq(vec, LAMBDA id : id # token_id)

\* if let Some(token_vec) = tokens.get_mut(&owner) { token_vec.retain(..) }
RemoveFromOwner(index, owner, token_id) ==
    IF owner \in DOMAIN index
    THEN [index EXCEPT ![owner] = Retain(@, token_id)]
    ELSE index

\* tokens.entry(owner).or_insert_with(Vec::new).push(token_id)
PushToOwner(index, owner, token_id) ==
    IF owner \in DOMAIN index
    THEN [index EXCEPT ![owner] = Append(@, token_id)]
    ELSE (owner :> <<token_id>>) @@ index

Insert(map, key, value) == (key :> value) @@ map

Remove(map, key) == [k \in DOMAIN map \ {key} |-> map[k]]

\* ------------------------------------------------------------ the clock
\* Time passes between two messages, never inside one.
Tick ==
    /\ Idle
    /\ now < MaxTime
    /\ now' = now + 1
    /\ UNCHANGED <<ledger, approvals, txlog, config, call>>

\* ------------------------------------------------------- batch handlers
BatchOps == {"icrc7_transfer", "icrc37_approve_tokens", "icrc37_transfer_from"}

\* args.into_iter().map(|arg| { ... }): the handler starts on its vector.
BatchCall(op, caller) ==
    /\ Idle
    /\ call' = [op |-> op, status |-> "running", caller |-> caller, arg |-> None,
                results |-> <<>>]
    /\ UNCHANGED <<now, ledger, approvals, txlog, config>>

\* The reply leaves: .collect() of a batch handler whose vector is exhausted,
\* or the return value of any other handler.
Return ==
    /\ call.status \in {"running", "replying"}
    /\ call' = NoCall
    /\ UNCHANGED <<now, ledger, approvals, txlog, config>>

Running(op) ==
    /\ call.status = "running"
    /\ call.op = op
    /\ Len(call.results) < MaxBatch

\* The closure returns `result` for the element `arg`.
Yield(result) == call' = [call EXCEPT !.results = Append(@, result)]

\* Fault variant: the first failing element ends the batch.
RejectAborting(error) ==
    /\ call' = [call EXCEPT !.results = Append(@, Err(error)), !.status = "replying"]
    /\ UNCHANGED <<now, ledger, approvals, txlog, config>>

\* return Err(..) before anything was written.
Reject(error) ==
    /\ Yield(Err(error))
    /\ UNCHANGED <<now, ledger, approvals, txlog, config>>

CreatedAtTimes == {None, Some(0)}
Expiries == {None, Some(1)}

TransferArgs == [token_id : TokenIds, to : Principals, created_at_time : CreatedAtTimes]
Spenders == {"p2"}
ApprovalArgs == [token_id : TokenIds, spender : Spenders, expires_at : Expiries]
ApprovalCollectionArgs == [spender : Spenders, expires_at : Expiries]
TransferFromArgs == [from : Principals, to : Principals, token_id : TokenIds]

\* Fault variant: sender and recipient are exchanged.
TransferRecordSwapped(from, to, timestamp) == [from |-> to, to |-> from]

TransferRecord(from, to, timestamp) == [from |-> from, to |-> to]

\* The checks of icrc7_transfer on one element, before it writes.
\* Fault variant: the ownership test is missing.
icrc7_transfer_check_any_caller(caller, token_id) ==
    IF token_id \notin DOMAIN nfts THEN "NotFound" ELSE "Ok"

icrc7_transfer_check(caller, token_id) ==
    IF token_id \notin DOMAIN nfts THEN "NotFound"
    ELSE IF nfts[token_id].owner # caller THEN "Unauthorized"
    ELSE "Ok"

\* One element of icrc7_transfer.
icrc7_transfer(arg) ==
    /\ Running("icrc7_transfer")
    /\ LET caller == call.caller
           token_id == arg.token_id
           to_owner == arg.to
           check == icrc7_transfer_check(caller, token_id)
       IN  IF check # "Ok" THEN Reject(check)
           ELSE LET timestamp == IF IsSome(arg.created_at_time)
                                 THEN Unwrap(arg.created_at_time) ELSE now
                    nft == nfts[token_id]
                IN  /\ LogHasRoom
                    /\ nfts' = Insert(nfts, token_id,
                          [owner |-> to_owner,
                           transfer_history |-> Append(nft.transfer_history,
                                                       TransferRecord(caller, to_owner, timestamp))])
                    /\ owner_tokens' = PushToOwner(RemoveFromOwner(owner_tokens, caller, token_id),
                                                   to_owner, token_id)
                    /\ record_transaction("transfer", token_id, caller, to_owner,
                                          <<"standard_transfer">>)
                    /\ Yield(Ok(timestamp))
                    /\ UNCHANGED <<now, tokens, token_assets, nft_counter, approvals, config>>

ApprovalInfo(spender, token_id, expires_at) ==
    [spender |-> spender, token_id |-> token_id, expires_at |-> expires_at]

\* Fault variant: the ownership test is missing.
icrc37_approve_tokens_check_any_caller(caller, token_id) ==
    IF token_id \notin DOMAIN nfts THEN "NotFound" ELSE "Ok"

\* The checks of icrc37_approve_tokens on one element.
icrc37_approve_tokens_check(caller, token_id) ==
    IF token_id \notin DOMAIN nfts THEN "NotFound"
    ELSE IF nfts[token_id].owner # caller THEN "Unauthorized"
    ELSE "Ok"

\* One element of icrc37_approve_tokens.
icrc37_approve_tokens(arg) ==
    /\ Running("icrc37_approve_tokens")
    /\ LET caller_principal == call.caller
           token_id == arg.token_id
           spender_principal == arg.spender
           check == icrc37_approve_tokens_check(caller_principal, token_id)
       IN  IF check # "Ok" THEN Reject(check)
           ELSE /\ LogHasRoom
                /\ token_approvals' = Insert(token_approvals, <<token_id, spender_principal>>,
                                             ApprovalInfo(spender_principal, token_id, arg.expires_at))
                /\ record_transaction("approve", token_id, caller_principal, spender_principal,
                                      <<"token_approval">>)
                /\ Yield(Ok(now))
                /\ UNCHANGED <<now, ledger, collection_approvals, config>>

\* Fault variant: self-approval is accepted.
icrc37_approve_collection_check_self(caller_principal, spender_principal) == "Ok"

\* The self-approval check of icrc37_approve_collection.
icrc37_approve_collection_check(caller_principal, spender_principal) ==
    IF caller_principal = spender_principal THEN "GenericError" ELSE "Ok"

icrc37_approve_collection(caller_principal, args) ==
    /\ Idle
    /\ LET spender_principal == args.spender
           check == icrc37_approve_collection_check(caller_principal, spender_principal)
       IN  IF check # "Ok"
           THEN /\ call' = Returned("icrc37_approve_collection", caller_principal, args,
                                    <<Err(check)>>)
                /\ UNCHANGED <<now, ledger, approvals, txlog, config>>
           ELSE /\ LogHasRoom
                /\ collection_approvals' = Insert(collection_approvals,
                                                  <<caller_principal, spender_principal>>,
                                                  ApprovalInfo(spender_principal, 0, args.expires_at))
                /\ record_transaction("approve", 0, caller_principal, spender_principal,
                                      <<"collection_approval">>)
                /\ call' = Returned("icrc37_approve_collection", caller_principal, args,
                                    <<Ok(now)>>)
                /\ UNCHANGED <<now, ledger, token_approvals, config>>

\* Fault variant: the approval test is missing.
icrc37_transfer_from_check_unapproved(caller, from, token_id) ==
    IF token_id \notin DOMAIN nfts THEN "NotFound"
    ELSE IF nfts[token_id].owner # from THEN "Unauthorized"
    ELSE "Ok"

\* The checks of icrc37_transfer_from on one element.
icrc37_transfer_from_check(caller, from, token_id) ==
    IF token_id \notin DOMAIN nfts THEN "NotFound"
    ELSE IF nfts[token_id].owner # from THEN "Unauthorized"
    ELSE IF ~icrc37_is_approved(caller, from, token_id) THEN "Unauthorized"
    ELSE "Ok"

\* Fault variant: the used token approval is kept.
KeepTokenApproval(map, token_id, spender) == map

\* spender_map.remove(&caller_principal) on the token's entry, when there is one.
ConsumeTokenApproval(map, token_id, spender) ==
    IF <<token_id, spender>> \in DOMAIN map THEN Remove(map, <<token_id, spender>>) ELSE map

\* One element of icrc37_transfer_from.
icrc37_transfer_from(arg) ==
    /\ Running("icrc37_transfer_from")
    /\ LET caller_principal == call.caller
           token_id == arg.token_id
           from_principal == arg.from
           to_principal == arg.to
           check == icrc37_transfer_from_check(caller_principal, from_principal, token_id)
       IN  IF check # "Ok" THEN Reject(check)
           ELSE LET nft == nfts[token_id]
                IN  /\ LogHasRoom
                    /\ nfts' = Insert(nfts, token_id,
                          [owner |-> to_principal,
                           transfer_history |-> Append(nft.transfer_history,
                                                       TransferRecord(from_principal, to_principal, now))])
                    /\ owner_tokens' = PushToOwner(RemoveFromOwner(owner_tokens, from_principal, token_id),
                                                   to_principal, token_id)
                    /\ token_approvals' = ConsumeTokenApproval(token_approvals, token_id,
                                                               caller_principal)
                    /\ record_transaction("transfer", token_id, from_principal, to_principal,
                                          <<"transfer_from">>)
                    /\ Yield(Ok(now))
                    /\ UNCHANGED <<now, tokens, token_assets, nft_counter, collection_approvals,
                                   config>>

\* --------------------------------------------------- schedules and prices
BundlePrice(quantity, price) == [quantity |-> quantity, price |-> price]

\* whitelist.borrow().get(&caller).copied().unwrap_or(false)
user_in_whitelist(user) == user \in DOMAIN whitelist /\ whitelist[user]

\* Fault variant: a window is not yet open at its start time.
time_valid_after_start(s, current_time) ==
    /\ IsSome(s.start_time) => current_time > Unwrap(s.start_time)
    /\ IsSome(s.end_time) => current_time <= Unwrap(s.end_time)

time_valid(s, current_time) ==
    /\ IsSome(s.start_time) => current_time >= Unwrap(s.start_time)
    /\ IsSome(s.end_time) => current_time <= Unwrap(s.end_time)

\* The two filters mint, mint_bundle and get_available_bundles apply to a schedule.
schedule_qualifies(s, in_whitelist, current_time) ==
    /\ s.active
    /\ time_valid(s, current_time)
    /\ (IF s.whitelist_only THEN in_whitelist ELSE TRUE)

active_schedules(user, current_time) ==
    SelectSeq(details.mint_schedules,
              LAMBDA s : schedule_qualifies(s, user_in_whitelist(user), current_time))

\* Fault variant: the tier with the largest quantity, eligible or not.
closest_bundle_unfiltered(bundle_prices, quantity) ==
    IF bundle_prices = <<>> THEN None
    ELSE Some(bundle_prices[CHOOSE i \in 1..Len(bundle_prices) :
                 \A j \in 1..Len(bundle_prices) :
                    /\ bundle_prices[j].quantity <= bundle_prices[i].quantity
                    /\ j > i => bundle_prices[j].quantity < bundle_prices[i].quantity])

\* .filter(|b| b.quantity <= quantity).max_by_key(|b| b.quantity): of several
\* maximal elements max_by_key returns the last one.
closest_bundle(bundle_prices, quantity) ==
    LET eligible == SelectSeq(bundle_prices, LAMBDA b : b.quantity <= quantity)
    IN  IF eligible = <<>> THEN None
        ELSE Some(eligible[CHOOSE i \in 1..Len(eligible) :
                     \A j \in 1..Len(eligible) :
                        /\ eligible[j].quantity <= eligible[i].quantity
                        /\ j > i => eligible[j].quantity < eligible[i].quantity])

Trap == <<"Trap">>
IsTrap(r) == r[1] = "Trap"

\* The loop of get_active_mint_price from schedule i on, `best_price` so far.
\* A bundle of quantity 0 makes the ceiling division divide by zero: the call traps.
RECURSIVE best_price_from(_, _, _, _)
best_price_from(quantity, schedules, i, best_price) ==
    IF i > Len(schedules) THEN Ok(best_price)
    ELSE LET closest == closest_bundle(schedules[i].bundle_prices, quantity)
         IN  IF closest = None
             THEN best_price_from(quantity, schedules, i + 1, best_price)
             ELSE LET bundle == Unwrap(closest)
                  IN  IF bundle.quantity = 0 THEN Trap
                      ELSE LET bundle_count == (quantity + bundle.quantity - 1) \div bundle.quantity
                               total_price == bundle.price * bundle_count
                           IN  IF IsSome(best_price) /\ ~(total_price < Unwrap(best_price))
                               THEN best_price_from(quantity, schedules, i + 1, best_price)
                               ELSE best_price_from(quantity, schedules, i + 1, Some(total_price))

get_active_mint_price(quantity, schedules) ==
    IF schedules = <<>> THEN Err("No active minting schedules available")
    ELSE best_price_from(quantity, schedules, 1, None)

\* get_available_bundles: the qualifying schedules, each with its tiers.
get_available_bundles(user) ==
    IF ~details.pricing_enabled THEN <<>>
    ELSE LET qualifying == active_schedules(user, now)
         IN  [i \in 1..Len(qualifying) |-> <<qualifying[i], qualifying[i].bundle_prices>>]

\* ------------------------------------------------------------------ minting
\* Fault variant: the counter is read but not advanced.
mint_nft_stale_counter(l, owner, asset_id) ==
    LET token_id == l.nft_counter + 1
    IN  [nft_counter |-> l.nft_counter,
         tokens |-> Insert(l.tokens, token_id, owner),
         owner_tokens |-> PushToOwner(l.owner_tokens, owner, token_id),
         token_assets |-> IF asset_id # "" THEN Insert(l.token_assets, token_id, asset_id)
                          ELSE l.token_assets,
         token_ids |-> Append(l.token_ids, token_id)]

\* mint_nft on the ledger l = [nft_counter, tokens, owner_tokens, token_assets]:
\* the ledger after it, with the id it returns.
mint_nft(l, owner, asset_id) ==
    LET token_id == l.nft_counter + 1
    IN  [nft_counter |-> token_id,
         tokens |-> Insert(l.tokens, token_id, owner),
         owner_tokens |-> PushToOwner(l.owner_tokens, owner, token_id),
         token_assets |-> IF asset_id # "" THEN Insert(l.token_assets, token_id, asset_id)
                          ELSE l.token_assets,
         token_ids |-> Append(l.token_ids, token_id)]

\* for _ in 0..quantity { token_ids.push(mint_nft(caller, asset_id)?) }
RECURSIVE mint_loop(_, _, _)
mint_loop(l, owner, quantity) ==
    IF quantity = 0 THEN l
    ELSE mint_loop(mint_nft(l, owner, "asset-uuid"), owner, quantity - 1)

Ledger ==
    [nft_counter |-> nft_counter, tokens |-> tokens, owner_tokens |-> owner_tokens,
     token_assets |-> token_assets, token_ids |-> <<>>]

SetLedger(l) ==
    /\ nft_counter' = l.nft_counter
    /\ tokens' = l.tokens
    /\ owner_tokens' = l.owner_tokens
    /\ token_assets' = l.token_assets

\* The checks of mint, in the order the handler makes them.
mint_check(caller, current_time) ==
    LET schedules == active_schedules(caller, current_time)
        price == get_active_mint_price(1, schedules)
    IN  IF ~details.pricing_enabled THEN Err("Minting is not enabled")
        ELSE IF schedules = <<>>
        THEN Err("No active minting schedules available for this user")
        ELSE IF IsSome(details.max_supply) /\ nft_counter >= Unwrap(details.max_supply)
        THEN Err("Maximum supply reached")
        ELSE IF IsTrap(price) THEN Trap
        ELSE IF ~IsOk(price) THEN price
        ELSE IF price[2] = None THEN Err("No price available for this quantity")
        ELSE Ok(Unwrap(price[2]))

\* The checks of mint_bundle.  Its supply message computes
\* max_supply - minted_count, which underflows when more was minted than
\* max_supply: the call then traps or returns the message, by the build.
mint_bundle_check(caller, current_time, quantity) ==
    LET schedules == active_schedules(caller, current_time)
        price == get_active_mint_price(quantity, schedules)
    IN  IF quantity = 0 THEN {Err("Quantity must be greater than 0")}
        ELSE IF ~details.pricing_enabled THEN {Err("Minting is not enabled")}
        ELSE IF schedules = <<>>
        THEN {Err("No active minting schedules available for this user")}
        ELSE IF IsSome(details.max_supply) /\ nft_counter + quantity > Unwrap(details.max_supply)
        THEN IF nft_counter > Unwrap(details.max_supply)
             THEN {Err("Requested quantity exceeds available supply"), Trap}
             ELSE {Err("Requested quantity exceeds available supply")}
        ELSE IF IsTrap(price) THEN {Trap}
        ELSE IF ~IsOk(price) THEN {price}
        ELSE IF price[2] = None THEN {Err("No price available for quantity")}
        ELSE {Ok(Unwrap(price[2]))}

AssetIds == {"a"}
MintArgs == [asset_id : AssetIds]
MintBundleArgs == [quantity : 0..MaxMint]

\* Fault variant: a token id is allocated before the checks are made.
MintRejectedAfterAllocation(op, caller, args, check) ==
    /\ call' = Returned(op, caller, args, <<check>>)
    /\ nft_counter' = nft_counter + 1
    /\ UNCHANGED <<now, nfts, tokens, token_assets, owner_tokens, approvals, txlog, config>>

\* })?; the checks failed (or trapped) and nothing has been written.
MintRejected(op, caller, args, check) ==
    /\ call' = Returned(op, caller, args, <<check>>)
    /\ UNCHANGED <<now, ledger, approvals, txlog, config>>

mint(caller, args) ==
    /\ Idle
    /\ LET check == mint_check(caller, now)
       IN  IF ~IsOk(check)
           THEN MintRejected("mint", caller, args, check)
           ELSE LET l == mint_nft(Ledger, caller, args.asset_id)
                    new_token_id == l.token_ids[1]
                IN  /\ nft_counter < MaxMint
                    /\ LogHasRoom
                    /\ SetLedger(l)
                    /\ record_transaction("mint", new_token_id, CanisterId, caller,
                                          <<"Minted token", new_token_id, args.asset_id>>)
                    /\ call' = Returned("mint", caller, args, <<Ok(new_token_id)>>)
                    /\ UNCHANGED <<now, nfts, approvals, config>>

mint_bundle(caller, args) ==
    /\ Idle
    /\ \E check \in mint_bundle_check(caller, now, args.quantity) :
          IF ~IsOk(check)
          THEN MintRejected("mint_bundle", caller, args, check)
          ELSE LET l == mint_loop(Ledger, caller, args.quantity)
                   first_token_id == IF l.token_ids = <<>> THEN 0 ELSE l.token_ids[1]
               IN  /\ nft_counter + args.quantity <= MaxMint
                   /\ LogHasRoom
                   /\ SetLedger(l)
                   /\ record_transaction("mint_bundle", first_token_id, CanisterId, caller,
                                         <<"Minted bundle of", args.quantity>>)
                   /\ call' = Returned("mint_bundle", caller, args, <<Ok(l.token_ids)>>)
                   /\ UNCHANGED <<now, nfts, approvals, config>>

\* ---------------------------------------------------------- administration
update_collection_details(caller, args) ==
    /\ Idle
    /\ IF ~is_admin(caller)
       THEN /\ call' = Returned("update_collection_details", caller, args,
                                <<Err("Unauthorized")>>)
            /\ UNCHANGED <<now, ledger, approvals, txlog, config>>
       ELSE IF IsSome(args.max_supply) /\ Cardinality(DOMAIN nfts) > 0
       THEN /\ call' = Returned("update_collection_details", caller, args,
                                <<Err("Cannot modify max supply after minting has started")>>)
            /\ UNCHANGED <<now, ledger, approvals, txlog, config>>
       ELSE /\ details' =
                 [max_supply |-> IF IsSome(args.max_supply)
                                 THEN Some(Unwrap(args.max_supply)) ELSE details.max_supply,
                  pricing_enabled |-> IF IsSome(args.pricing_enabled)
                                      THEN Unwrap(args.pricing_enabled)
                                      ELSE details.pricing_enabled,
                  mint_schedules |-> IF IsSome(args.mint_schedules)
                                     THEN Unwrap(args.mint_schedules)
                                     ELSE details.mint_schedules]
            /\ call' = Returned("update_collection_details", caller, args, <<Ok(<<>>)>>)
            /\ UNCHANGED <<now, ledger, approvals, txlog, admins, whitelist, assets>>

\* Fault variant: no schedule is ever found, every update appends.
find_schedule_none(schedules, name) == 0

\* The position of the first schedule named `name`, 0 when there is none.
find_schedule(schedules, name) ==
    IF \E i \in 1..Len(schedules) : schedules[i].name = name
    THEN CHOOSE i \in 1..Len(schedules) :
            /\ schedules[i].name = name
            /\ \A j \in 1..(i - 1) : schedules[j].name # name
    ELSE 0

update_mint_schedule(caller, args) ==
    /\ Idle
    /\ LET reply(r) == Returned("update_mint_schedule", caller, args, <<r>>)
           i == find_schedule(details.mint_schedules, args.name)
           schedule == details.mint_schedules[i]
       IN  IF ~is_admin(caller)
           THEN /\ call' = reply(Err("Unauthorized"))
                /\ UNCHANGED <<now, ledger, approvals, txlog, config>>
           ELSE IF args.name = ""
           THEN /\ call' = reply(Err("Schedule name cannot be empty"))
                /\ UNCHANGED <<now, ledger, approvals, txlog, config>>
           ELSE IF /\ IsSome(args.start_time)
                   /\ IsSome(args.end_time)
                   /\ Unwrap(args.end_time) <= Unwrap(args.start_time)
           THEN /\ call' = reply(Err("End time must be after start time"))
                /\ UNCHANGED <<now, ledger, approvals, txlog, config>>
           ELSE /\ details' =
                     [details EXCEPT !.mint_schedules =
                        IF i # 0
                        THEN [@ EXCEPT ![i] =
                                MintSchedule(schedule.name,
                                    args.bundle_prices,
                                    IF IsSome(args.start_time) THEN args.start_time
                                    ELSE schedule.start_time,
                                    IF IsSome(args.end_time) THEN args.end_time
                                    ELSE schedule.end_time,
                                    IF IsSome(args.active) THEN Unwrap(args.active)
                                    ELSE schedule.active,
                                    IF IsSome(args.whitelist_only) THEN Unwrap(args.whitelist_only)
                                    ELSE schedule.whitelist_only)]
                        ELSE Append(@, MintSchedule(args.name, args.bundle_prices,
                                        args.start_time, args.end_time,
                                        IF IsSome(args.active) THEN Unwrap(args.active) ELSE FALSE,
                                        IF IsSome(args.whitelist_only)
                                        THEN Unwrap(args.whitelist_only) ELSE FALSE))]
                /\ call' = reply(Ok(<<>>))
                /\ UNCHANGED <<now, ledger, approvals, txlog, admins, whitelist, assets>>

\* remove_mint_schedule: retain the schedules with another name. The Err of the
\* inner closure (no schedule had the name) is dropped: an admin naming a
\* non-empty name always gets Ok(()).
remove_mint_schedule(caller, name) ==
    /\ Idle
    /\ LET reply(r) == Returned("remove_mint_schedule", caller, name, <<r>>)
       IN  IF ~is_admin(caller)
           THEN /\ call' = reply(Err("Unauthorized"))
                /\ UNCHANGED <<now, ledger, approvals, txlog, config>>
           ELSE IF name = ""
           THEN /\ call' = reply(Err("Schedule name cannot be empty"))
                /\ UNCHANGED <<now, ledger, approvals, txlog, config>>
           ELSE /\ details' = [details EXCEPT !.mint_schedules =
                                  SelectSeq(@, LAMBDA s : s.name # name)]
                /\ call' = reply(Ok(<<>>))
                /\ UNCHANGED <<now, ledger, approvals, txlog, admins, whitelist, assets>>

UploadArgs == [key : {Some(<<"k">>)}]

\* upload: the asset is stored under its key and the upload is logged.
upload(caller, args) ==
    /\ Idle
    /\ IF ~is_admin(caller)
       THEN /\ call' = Returned("upload", caller, args, <<Err("Unauthorized")>>)
            /\ UNCHANGED <<now, ledger, approvals, txlog, config>>
       ELSE LET key == IF IsSome(args.key) THEN Unwrap(args.key) ELSE <<"asset", now>>
            IN  /\ LogHasRoom
                /\ assets' = assets \cup {key}
                /\ record_transaction("upload", 0, caller, CanisterId, <<"upload_file", key>>)
                /\ call' = Returned("upload", caller, args, <<Ok(key)>>)
                /\ UNCHANGED <<now, ledger, approvals, details, admins, whitelist>>

\* ------------------------------------------------------------ specification
\* What the administrator sends while the ledger is exercised: minting is
\* switched on, the supply is capped, the Standard schedule gets a price.
DetailsArgs ==
    {[max_supply |-> None, pricing_enabled |-> Some(TRUE), mint_schedules |-> None]}

ScheduleArgs ==
    {[name |-> "Standard", bundle_prices |-> <<BundlePrice(1, 10)>>, start_time |-> None,
      end_time |-> None, active |-> Some(TRUE), whitelist_only |-> None]}

Next ==
    \/ Tick
    \/ \E op \in BatchOps, caller \in Principals : BatchCall(op, caller)
    \/ Return
    \/ \E arg \in TransferArgs : icrc7_transfer(arg)
    \/ \E arg \in ApprovalArgs : icrc37_approve_tokens(arg)
    \/ \E arg \in TransferFromArgs : icrc37_transfer_from(arg)
    \/ \E caller \in Principals, args \in ApprovalCollectionArgs :
          icrc37_approve_collection(caller, args)
    \/ \E caller \in Principals, args \in MintArgs : mint(caller, args)
    \/ \E caller \in Principals, args \in MintBundleArgs : mint_bundle(caller, args)
    \/ \E caller \in Principals, args \in DetailsArgs : update_collection_details(caller, args)
    \/ \E caller \in Principals, args \in ScheduleArgs : update_mint_schedule(caller, args)
    \/ \E caller \in Principals, args \in UploadArgs : upload(caller, args)

Spec == Init /\ [][Next]_vars

\* ------------------------------------- specification of schedule administration
\* The schedule updates sent: a closing time for Standard, then an opening time
\* for it alone; a new schedule Sale with a proper window; windows that end at or
\* before their start; an empty name; flags alone.
AdminScheduleArgs ==
    {[name |-> "Standard", bundle_prices |-> <<BundlePrice(1, 10)>>, start_time |-> None,
      end_time |-> Some(1), active |-> Some(TRUE), whitelist_only |-> None],
     [name |-> "Standard", bundle_prices |-> <<BundlePrice(2, 15)>>, start_time |-> Some(2),
      end_time |-> None, active |-> None, whitelist_only |-> None],
     [name |-> "Sale", bundle_prices |-> <<BundlePrice(1, 5)>>, start_time |-> Some(1),
      end_time |-> Some(2), active |-> None, whitelist_only |-> None],
     [name |-> "Sale", bundle_prices |-> <<>>, start_time |-> Some(2),
      end_time |-> Some(1), active |-> Some(TRUE), whitelist_only |-> Some(TRUE)],
     [name |-> "Sale", bundle_prices |-> <<BundlePrice(3, 5)>>, start_time |-> Some(1),
      end_time |-> Some(1), active |-> None, whitelist_only |-> Some(TRUE)],
     [name |-> "", bundle_prices |-> <<BundlePrice(1, 5)>>, start_time |-> None,
      end_time |-> None, active |-> None, whitelist_only |-> None],
     [name |-> "Sale", bundle_prices |-> <<BundlePrice(3, 5)>>, start_time |-> None,
      end_time |-> None, active |-> None, whitelist_only |-> Some(TRUE)]}

\* The collection updates sent: the pricing flag alone, and whole schedule lists.
AdminDetailsArgs ==
    {[max_supply |-> None, pricing_enabled |-> Some(TRUE), mint_schedules |-> None],
     [max_supply |-> None, pricing_enabled |-> None,
      mint_schedules |-> Some(<<MintSchedule("Sale", <<BundlePrice(1, 5)>>, None, None, TRUE, FALSE),
                               MintSchedule("Sale", <<BundlePrice(1, 7)>>, None, None, TRUE, FALSE)>>)],
     [max_supply |-> None, pricing_enabled |-> None,
      mint_schedules |-> Some(<<MintSchedule("Sale", <<BundlePrice(1, 5)>>, Some(2), Some(1),
                                             TRUE, FALSE)>>)]}

ScheduleNames == {"Standard", "Sale", "Missing", ""}

AdminNext ==
    \/ Return
    \/ \E caller \in Principals, args \in AdminScheduleArgs :
          update_mint_schedule(caller, args)
    \/ \E caller \in Principals, name \in ScheduleNames :
          remove_mint_schedule(caller, name)
    \/ \E caller \in Principals, args \in AdminDetailsArgs :
          update_collection_details(caller, args)

AdminSpec == Init /\ [][AdminNext]_vars

\* ------------------------------------- specification of the supply check of u64
\* The counter, the quantity and max_supply are u64.  The arithmetic is modelled
\* at a word of WordBits bits: the values range over 0..Modulus - 1 and the sum
\* is taken modulo Modulus where the build lets it wrap.
WordBits == 4

Modulus == 2 ^ WordBits

Words == 0..(Modulus - 1)

\* The supply check of mint_bundle:
\*   if minted_count + quantity > max_supply { return Err(format!(.., max_supply - minted_count)) }
\* A sum beyond the word panics in a build with overflow checks and wraps in a
\* build without; the difference in the message panics or wraps likewise when
\* minted_count exceeds max_supply.  The value is the set of outcomes.
supply_check(minted_count, quantity, max_supply) ==
    LET outcomes(sum) ==
            IF sum > Unwrap(max_supply)
            THEN IF minted_count > Unwrap(max_supply)
                 THEN {Err("Requested quantity exceeds available supply"), Trap}
                 ELSE {Err("Requested quantity exceeds available supply")}
            ELSE {Ok(<<>>)}
    IN  IF max_supply = None THEN {Ok(<<>>)}
        ELSE IF minted_count + quantity < Modulus THEN outcomes(minted_count + quantity)
        ELSE {Trap} \cup outcomes((minted_count + quantity) % Modulus)

\* mint_bundle reaching its supply check with the counter at minted_count.
supply_check_call(minted_count, quantity, max_supply) ==
    /\ Idle
    /\ \E outcome \in supply_check(minted_count, quantity, max_supply) :
          call' = Returned("supply_check", CanisterId,
                           [minted_count |-> minted_count, quantity |-> quantity,
                            max_supply |-> max_supply],
                           <<outcome>>)
    /\ UNCHANGED <<now, ledger, approvals, txlog, config>>

\* The check is reached with a counter that has not passed max_supply.
SupplyInputs ==
    {i \in [minted_count : Words, quantity : Words,
            max_supply : {None} \cup {Some(w) : w \in Words}] :
        IsSome(i.max_supply) => i.minted_count <= Unwrap(i.max_supply)}

SupplyNext ==
    \/ Return
    \/ \E i \in SupplyInputs : supply_check_call(i.minted_count, i.quantity, i.max_supply)

SupplySpec == Init /\ [][SupplyNext]_vars

\* ----------------------------------------- specification of the admin registry
AdminTypes == {"System", "Functional"}

count_system_admins == Cardinality({p \in DOMAIN admins : admins[p] = "System"})

\* make_me_admin: a caller that is no admin yet is entered as a System admin.
make_me_admin(caller) ==
    /\ Idle
    /\ admins' = IF is_admin(caller) THEN admins ELSE Insert(admins, caller, "System")
    /\ call' = Returned("make_me_admin", caller, None, <<Ok(<<>>)>>)
    /\ UNCHANGED <<now, ledger, approvals, txlog, details, whitelist, assets>>

\* add_admin: a System admin enters user with the given type, replacing the type
\* user had, and whitelists user.
add_admin(caller, user, admin_type) ==
    /\ Idle
    /\ LET reply(r) == Returned("add_admin", caller,
                                [user |-> user, admin_type |-> admin_type], <<r>>)
       IN  IF ~is_system_admin(caller)
           THEN /\ call' = reply(Err("Unauthorized"))
                /\ UNCHANGED <<now, ledger, approvals, txlog, config>>
           ELSE /\ admins' = Insert(admins, user, admin_type)
                /\ whitelist' = Insert(whitelist, user, TRUE)
                /\ call' = reply(Ok(<<>>))
                /\ UNCHANGED <<now, ledger, approvals, txlog, details, assets>>

\* remove_admin: a System admin removes user; only the removal of oneself as the
\* single System admin is refused.
remove_admin(caller, user) ==
    /\ Idle
    /\ LET reply(r) == Returned("remove_admin", caller, user, <<r>>)
       IN  IF ~is_system_admin(caller)
           THEN /\ call' = reply(Err("Unauthorized"))
                /\ UNCHANGED <<now, ledger, approvals, txlog, config>>
           ELSE IF user = caller /\ count_system_admins <= 1
           THEN /\ call' = reply(Err("Cannot remove the last system admin"))
                /\ UNCHANGED <<now, ledger, approvals, txlog, config>>
           ELSE /\ admins' = Remove(admins, user)
                /\ call' = reply(Ok(<<>>))
                /\ UNCHANGED <<now, ledger, approvals, txlog, details, whitelist, assets>>

\* The registry under add_admin and remove_admin alone.
RegistryNext ==
    \/ Return
    \/ \E caller \in Principals, user \in Principals, admin_type \in AdminTypes :
          add_admin(caller, user, admin_type)
    \/ \E caller \in Principals, user \in Principals : remove_admin(caller, user)

RegistrySpec == init /\ [][RegistryNext]_vars

\* The registry under every call that writes it.
RightsNext ==
    \/ Return
    \/ \E caller \in Principals : make_me_admin(caller)
    \/ \E caller \in Principals, user \in Principals, admin_type \in AdminTypes :
          add_admin(caller, user, admin_type)
    \/ \E caller \in Principals, user \in Principals : remove_admin(caller, user)

RightsSpec == init /\ [][RightsNext]_vars

\* -------------------------------------------- specification of the query surface
\* The cursors and page sizes asked of the token listings.
Cursors == {None} \cup {Some(t) : t \in 0..(MaxMint + 1)}

PageSizes == {None, Some(0), Some(1), Some(2), Some(MAX_TAKE_VALUE + 1)}

\* The lengths of the logs held in stable memory at an upgrade: empty, shorter
\* than the default page, longer than it, longer than the largest page.
LogLengths == {0, 3, 12, 101}

\* A log of n records as record_transaction leaves it: n transfers of token 1
\* from p1 to itself, numbered from 0.
SavedLog(n) ==
    [i \in 1..n |-> [kind |-> "transfer", token_id |-> 1, from |-> "p1", to |-> "p1",
                     operation |-> <<"standard_transfer">>, transaction_id |-> i - 1]]

\* The token approvals held in stable memory: none, or p2 approved for token 1
\* until time 1.
SavedTokenApprovals == {<< >>, <<1, "p2">> :> ApprovalInfo("p2", 1, Some(1))}

\* #[post_upgrade], newest schema, reading a stable memory that holds tokens 1
\* and 2 of p1 and p2, the token approvals a and a log of n records.
post_upgrade_with(a, n) ==
    /\ now = 0
    /\ nfts = [t \in 1..2 |-> [owner |-> <<"p1", "p2">>[t], transfer_history |-> <<>>]]
    /\ tokens = << >>
    /\ token_assets = << >>
    /\ owner_tokens = [p \in {"p1", "p2"} |-> IndexOf(<<"p1", "p2">>, p)]
    /\ nft_counter = 0
    /\ token_approvals = a
    /\ collection_approvals = << >>
    /\ transactions = SavedLog(n)
    /\ transaction_id_counter = n
    /\ details = RestoredCollectionDetails
    /\ admins = (Deployer :> "System")
    /\ whitelist = (Deployer :> TRUE)
    /\ assets = {}
    /\ call = NoCall

QueryInit == \E a \in SavedTokenApprovals, n \in LogLengths : post_upgrade_with(a, n)

\* Fault variant: a query drops the token approvals that have expired.
QueryReplySweeping(op, arg, result) ==
    /\ Idle
    /\ call' = Returned(op, CanisterId, arg, <<result>>)
    /\ token_approvals' =
          [k \in {j \in DOMAIN token_approvals : NotExpired(token_approvals[j].expires_at)}
             |-> token_approvals[k]]
    /\ UNCHANGED <<now, ledger, collection_approvals, txlog, config>>

\* A #[query] handler: it reads the state through borrow() and replies.
QueryReply(op, arg, result) ==
    /\ Idle
    /\ call' = Returned(op, CanisterId, arg, <<result>>)
    /\ UNCHANGED <<now, ledger, approvals, txlog, config>>

query_icrc7_owner_of(token_id) ==
    QueryReply("icrc7_owner_of", token_id, icrc7_owner_of(token_id))

query_icrc7_balance_of(account) ==
    QueryReply("icrc7_balance_of", account, icrc7_balance_of(account.owner))

query_icrc7_total_supply ==
    QueryReply("icrc7_total_supply", None, icrc7_total_supply)

query_icrc7_tokens(prev, take) ==
    \E reply \in icrc7_tokens(prev, take) :
        QueryReply("icrc7_tokens", [prev |-> prev, take |-> take], reply)

query_icrc7_tokens_of(account, prev, take) ==
    QueryReply("icrc7_tokens_of", [account |-> account, prev |-> prev, take |-> take],
               icrc7_tokens_of(account, prev, take))

query_icrc37_is_approved(spender, from, token_id) ==
    QueryReply("icrc37_is_approved",
               [spender |-> spender, from |-> from, token_id |-> token_id],
               icrc37_is_approved(spender.owner, from.owner, token_id))

GetTransactionsRequests ==
    [start : {None, Some(0), Some(2), Some(100), Some(101), Some(200)},
     length : {None, Some(0), Some(1), Some(100), Some(101)}]

query_icrc3_get_transactions(request) ==
    QueryReply("icrc3_get_transactions", request, icrc3_get_transactions(request))

TransactionIds == {0, 2, 100, 101}

query_icrc3_get_transaction(transaction_id) ==
    QueryReply("icrc3_get_transaction", transaction_id, icrc3_get_transaction(transaction_id))

query_get_mint_schedules ==
    QueryReply("get_mint_schedules", None, get_mint_schedules)

query_get_available_bundles(user) ==
    QueryReply("get_available_bundles", user, get_available_bundles(user))

Accounts == [owner : Principals]

QueryNext ==
    \/ Tick
    \/ Return
    \/ \E token_id \in TokenIds : query_icrc7_owner_of(token_id)
    \/ \E account \in Accounts : query_icrc7_balance_of(account)
    \/ query_icrc7_total_supply
    \/ \E prev \in Cursors, take \in PageSizes : query_icrc7_tokens(prev, take)
    \/ \E account \in Accounts, prev \in Cursors, take \in PageSizes :
          query_icrc7_tokens_of(account, prev, take)
    \/ \E spender \in Accounts, from \in Accounts, token_id \in TokenIds :
          query_icrc37_is_approved(spender, from, token_id)
    \/ \E request \in GetTransactionsRequests : query_icrc3_get_transactions(request)
    \/ \E transaction_id \in TransactionIds : query_icrc3_get_transaction(transaction_id)
    \/ query_get_mint_schedules
    \/ \E user \in Principals : query_get_available_bundles(user)

QuerySpec == QueryInit /\ [][QueryNext]_vars

\* ------------------------------------------ specification of the price resolver
\* The largest quantity requested of the resolver.
MaxQuantity == 7

Quantities == 1..MaxQuantity

\* The tier lists a schedule may carry: the two-tier list {1:10, 5:40} in both
\* orders, single tiers, a tier of quantity 0 and no tier at all.
TierLists ==
    {<<BundlePrice(1, 10), BundlePrice(5, 40)>>,
     <<BundlePrice(5, 40), BundlePrice(1, 10)>>,
     <<BundlePrice(1, 10)>>,
     <<BundlePrice(2, 15)>>,
     <<BundlePrice(3, 5)>>,
     <<BundlePrice(0, 10)>>,
     <<>>}

\* mint and mint_bundle hand the resolver the schedules that qualify, and only
\* when there is at least one: lists of one or two schedules.
QualifyingLists ==
    {<<MintSchedule("Standard", t, None, None, TRUE, FALSE)>> : t \in TierLists}
    \cup {<<MintSchedule("Standard", t, None, None, TRUE, FALSE),
            MintSchedule("Whitelist", u, None, None, TRUE, FALSE)>> :
             t \in TierLists, u \in TierLists}

\* The call of the resolver made by mint and mint_bundle, with its reply.
get_active_mint_price_call(quantity, schedules) ==
    /\ Idle
    /\ call' = Returned("get_active_mint_price", CanisterId,
                        [quantity |-> quantity, schedules |-> schedules],
                        <<get_active_mint_price(quantity, schedules)>>)
    /\ UNCHANGED <<now, ledger, approvals, txlog, config>>

PriceNext ==
    \/ Return
    \/ \E quantity \in Quantities, schedules \in QualifyingLists :
          get_active_mint_price_call(quantity, schedules)

PriceSpec == Init /\ [][PriceNext]_vars

\* ------------------------------------------- specification of the mint gate
\* What the administrator sends while minting is exercised: pricing is switched
\* on, the supply is capped at one token.
MintDetailsArgs ==
    {[max_supply |-> None, pricing_enabled |-> Some(TRUE), mint_schedules |-> None],
     [max_supply |-> Some(1), pricing_enabled |-> None, mint_schedules |-> None]}

\* The schedule updates sent: a price per token, a tier of quantity 0, a tier that
\* only serves pairs and closes after time 0, a whitelist sale opening at time 1.
MintScheduleArgs ==
    {[name |-> "Standard", bundle_prices |-> <<BundlePrice(1, 10)>>, start_time |-> None,
      end_time |-> None, active |-> Some(TRUE), whitelist_only |-> None],
     [name |-> "Standard", bundle_prices |-> <<BundlePrice(0, 10)>>, start_time |-> None,
      end_time |-> None, active |-> Some(TRUE), whitelist_only |-> None],
     [name |-> "Standard", bundle_prices |-> <<BundlePrice(2, 15)>>, start_time |-> None,
      end_time |-> Some(0), active |-> Some(TRUE), whitelist_only |-> None],
     [name |-> "Whitelist", bundle_prices |-> <<BundlePrice(1, 5)>>, start_time |-> Some(1),
      end_time |-> None, active |-> Some(TRUE), whitelist_only |-> None]}

MintNext ==
    \/ Tick
    \/ Return
    \/ \E caller \in Principals, args \in MintArgs : mint(caller, args)
    \/ \E caller \in Principals, args \in MintBundleArgs : mint_bundle(caller, args)
    \/ \E caller \in Principals, args \in MintDetailsArgs :
          update_collection_details(caller, args)
    \/ \E caller \in Principals, args \in MintScheduleArgs :
          update_mint_schedule(caller, args)

MintSpec == Init /\ [][MintNext]_vars

\* ------------------------------------------------- specification of an upgrade
\* #[pre_upgrade] followed by #[post_upgrade], newest schema.  The tuple saved
\* holds TOKEN_ID_COUNTER, NFTS, OWNER_TOKENS, WHITELIST, ADMINS,
\* COLLECTION_DETAILS, ASSETS, MINTED_ASSETS, the two approval maps,
\* TRANSACTIONS, TRANSACTION_ID_COUNTER and ARCHIVES; post_upgrade writes these
\* back.  TOKENS, TOKEN_ASSETS and NFT_COUNTER are not in the tuple: the new
\* instance has their declared initial values.
upgrade ==
    /\ Idle
    /\ tokens' = << >>
    /\ token_assets' = << >>
    /\ nft_counter' = 0
    /\ call' = Returned("post_upgrade", CanisterId, None, <<>>)
    /\ UNCHANGED <<now, nfts, owner_tokens, approvals, txlog, config>>

UpgradeNext ==
    \/ Tick
    \/ Return
    \/ upgrade
    \/ \E caller \in Principals, args \in MintArgs : mint(caller, args)
    \/ \E caller \in Principals, args \in MintBundleArgs : mint_bundle(caller, args)
    \/ \E caller \in Principals, args \in MintDetailsArgs :
          update_collection_details(caller, args)
    \/ \E caller \in Principals, args \in MintScheduleArgs :
          update_mint_schedule(caller, args)

UpgradeSpec == Init /\ [][UpgradeNext]_vars

\* ------------------------------------------------------------------ claims
\* How often `token_id` occurs in the ownership set of `owner`.
OwnedCount(index, owner, token_id) ==
    IF owner \in DOMAIN index
    THEN Cardinality({i \in 1..Len(index[owner]) : index[owner][i] = token_id})
    ELSE 0

\* Every token issued so far: the records of NFTS and the ids mint_nft handed out.
IssuedTokens == DOMAIN nfts \cup DOMAIN tokens

IsPrefix(s, t) == Len(s) <= Len(t) /\ \A i \in 1..Len(s) : s[i] = t[i]

MaxOf(S) == IF S = {} THEN 0 ELSE CHOOSE x \in S : \A y \in S : y <= x

\* The step is a call of the handler `op` that replies in the same step.
Handled(op) == call.status = "idle" /\ call'.status = "replying" /\ call'.op = op

\* C1: for every issued token exactly one identity's ownership set contains it,
\* contains it once, and that identity is the owner icrc7_owner_of reports.
C1_OwnershipExclusivity ==
    \A t \in IssuedTokens :
        \E p \in Principals :
            /\ OwnedCount(owner_tokens, p, t) = 1
            /\ \A q \in Principals \ {p} : OwnedCount(owner_tokens, q, t) = 0
            /\ icrc7_owner_of(t) = Some(p)

\* The ids a successful mint or mint_bundle reply carries.
MintedIds(c) == IF c.op = "mint" THEN <<c.results[1][2]>> ELSE c.results[1][2]

MintSucceeded(c) ==
    /\ c.op \in {"mint", "mint_bundle"}
    /\ c.status = "replying"
    /\ IsOk(c.results[1])

\* C2: after a successful mint or mint_bundle by caller C returning id t, a token
\* record for t exists, its owner is C, and C's ownership set contains t.
C2_IssuePostcondition ==
    MintSucceeded(call) =>
        \A i \in 1..Len(MintedIds(call)) :
            LET t == MintedIds(call)[i]
            IN  /\ get_nft(t) # None
                /\ icrc7_owner_of(t) = Some(call.caller)
                /\ OwnedCount(owner_tokens, call.caller, t) >= 1

C4_TransactionIdsGapless ==
    /\ \A n \in 1..Len(transactions) : transactions[n].transaction_id = n - 1
    /\ \A id \in 0..(MaxTx + 1) :
          /\ IsSome(icrc3_get_transaction(id)) <=> id < Len(transactions)
          /\ id < Len(transactions) => icrc3_get_transaction(id) = Some(transactions[id + 1])

C4_Witness ==
    /\ Len(transactions) >= 2
    /\ \E i, j \in 1..Len(transactions) : transactions[i].kind # transactions[j].kind

\* C5: the log is append-only: before every step it is a prefix of the log after.
C5_LogAppendOnly == [][IsPrefix(transactions, transactions')]_vars

C5_Witness ==
    /\ Len(transactions) = MaxTx
    /\ transactions[1].kind = "approve"

\* C6: an element of icrc7_transfer yields NotFound for a missing token,
\* Unauthorized when the caller is not the owner, Ok otherwise; a failing
\* element changes no state and appends no record.
C6_DirectTransferAuthorization ==
    [][Running("icrc7_transfer") => \A arg \in TransferArgs : icrc7_transfer(arg) =>
        LET t == arg.token_id
            r == Last(call'.results)
        IN  /\ t \notin DOMAIN nfts => IsErr(r, "NotFound")
            /\ t \in DOMAIN nfts /\ nfts[t].owner # call.caller => IsErr(r, "Unauthorized")
            /\ t \in DOMAIN nfts /\ nfts[t].owner = call.caller => IsOk(r)
            /\ ~IsOk(r) => UNCHANGED <<now, ledger, approvals, txlog, config>>]_vars

C6_Witness ==
    /\ call.op = "icrc7_transfer"
    /\ Len(call.results) = 2
    /\ IsOk(call.results[1])
    /\ IsErr(call.results[2], "Unauthorized")

\* C7: an element of icrc37_transfer_from succeeds only if the token exists, is
\* owned by the stated `from` and the caller is approved at the time of the call;
\* a missing token yields NotFound, an ownership mismatch or a missing or expired
\* approval Unauthorized; a failing element changes no state and appends no record.
C7_DelegatedTransferAuthorization ==
    [][Running("icrc37_transfer_from") =>
       \A arg \in TransferFromArgs : icrc37_transfer_from(arg) =>
        LET t == arg.token_id
            r == Last(call'.results)
            owned == t \in DOMAIN nfts /\ nfts[t].owner = arg.from
            approved == icrc37_is_approved(call.caller, arg.from, t)
        IN  /\ IsOk(r) <=> owned /\ approved
            /\ t \notin DOMAIN nfts => IsErr(r, "NotFound")
            /\ t \in DOMAIN nfts /\ ~(owned /\ approved) => IsErr(r, "Unauthorized")
            /\ ~IsOk(r) => UNCHANGED <<now, ledger, approvals, txlog, config>>]_vars

\* An approval of the caller that has expired is rejected.
C7_Witness ==
    /\ call.op = "icrc37_transfer_from"
    /\ call.status = "running"
    /\ call.results = <<Err("Unauthorized")>>
    /\ \E t \in DOMAIN nfts :
          /\ <<t, call.caller>> \in DOMAIN token_approvals
          /\ ~NotExpired(token_approvals[<<t, call.caller>>].expires_at)
          /\ <<nfts[t].owner, call.caller>> \notin DOMAIN collection_approvals

\* What a successful transfer of token t from A to B must have done.
TransferEffect(t, A, B) ==
    /\ A # B => OwnedCount(owner_tokens', A, t) = 0
    /\ OwnedCount(owner_tokens', B, t) = 1
    /\ DOMAIN nfts' = DOMAIN nfts
    /\ nfts'[t].owner = B
    /\ nfts'[t].transfer_history = Append(nfts[t].transfer_history, [from |-> A, to |-> B])
    /\ Len(transactions') = Len(transactions) + 1
    /\ IsPrefix(transactions, transactions')
    /\ Last(transactions').kind = "transfer"
    /\ Last(transactions').token_id = t
    /\ Last(transactions').from = A
    /\ Last(transactions').to = B
    /\ \A u \in IssuedTokens \ {t} :
          /\ u \in DOMAIN nfts => nfts'[u] = nfts[u]
          /\ \A p \in Principals :
                OwnedCount(owner_tokens', p, u) = OwnedCount(owner_tokens, p, u)

\* C8: a successful transfer of t from A to B, direct or delegated, removes t from
\* A's set, leaves it exactly once in B's set, makes B the owner, appends one
\* history entry {from A, to B} and one "transfer" record, and touches no other token.
C8_TransferEffect ==
    [][/\ Running("icrc7_transfer") => \A arg \in TransferArgs :
             icrc7_transfer(arg) /\ IsOk(Last(call'.results)) =>
                 TransferEffect(arg.token_id, call.caller, arg.to)
       /\ Running("icrc37_transfer_from") => \A arg \in TransferFromArgs :
             icrc37_transfer_from(arg) /\ IsOk(Last(call'.results)) =>
                 TransferEffect(arg.token_id, arg.from, arg.to)]_vars

\* C9: a successful icrc37_transfer_from by S under a token approval deletes the
\* approval of (t, S); repeated with no collection approval from the current owner
\* it is Unauthorized.
C9_TokenApprovalConsumed ==
    [][Running("icrc37_transfer_from") => \A arg \in TransferFromArgs :
         LET t == arg.token_id
             S == call.caller
         IN  /\ icrc37_transfer_from(arg)
             /\ IsOk(Last(call'.results))
             /\ <<t, S>> \in DOMAIN token_approvals
             /\ NotExpired(token_approvals[<<t, S>>].expires_at)
             => /\ <<t, S>> \notin DOMAIN token_approvals'
                /\ <<nfts'[t].owner, S>> \notin DOMAIN collection_approvals' =>
                      \A from \in Principals :
                          icrc37_transfer_from_check(S, from, t)' = "Unauthorized"]_vars

C9_Witness ==
    /\ call.op = "icrc37_transfer_from"
    /\ Len(call.results) = 2
    /\ IsOk(call.results[1])
    /\ IsErr(call.results[2], "Unauthorized")
    /\ Len(transactions) = 2
    /\ transactions[1].kind = "approve"
    /\ transactions[1].operation = <<"token_approval">>
    /\ transactions[2].operation = <<"transfer_from">>
    /\ transactions[2].token_id = transactions[1].token_id
    /\ DOMAIN token_approvals = {}
    /\ DOMAIN collection_approvals = {}

\* C10: no transfer, direct or delegated, changes the collection approvals, and
\* while O's approval of S is unexpired S is authorised for every token O owns.
C10_CollectionApprovalsPersist ==
    /\ [][call.status = "running" /\ call.op \in {"icrc7_transfer", "icrc37_transfer_from"}
          => UNCHANGED collection_approvals]_vars
    /\ [](\A O, S \in Principals :
            <<O, S>> \in DOMAIN collection_approvals
                /\ NotExpired(collection_approvals[<<O, S>>].expires_at)
            => \A t \in DOMAIN nfts :
                  nfts[t].owner = O => icrc37_transfer_from_check(S, O, t) = "Ok")

C10_Witness ==
    /\ call.op = "icrc37_transfer_from"
    /\ call.results # <<>>
    /\ IsOk(Last(call.results))
    /\ DOMAIN token_approvals = {}
    /\ Last(transactions).operation = <<"transfer_from">>
    /\ LET O == Last(transactions).from
       IN  /\ <<O, call.caller>> \in DOMAIN collection_approvals
           /\ NotExpired(collection_approvals[<<O, call.caller>>].expires_at)
           /\ \E t \in DOMAIN nfts : nfts[t].owner = O

\* The times at which an approval is looked up: every reachable time and one beyond.
LookupTimes == 0..(MaxTime + 1)

\* Whether an approval stored with Some(T) is to count at `time`: up to and
\* including T when `inclusive`, strictly before T otherwise.
Valid(inclusive, time, T) == IF inclusive THEN time <= T ELSE time < T

\* Expiry of the stored approvals as a function of the lookup time, all else held
\* constant: the only approval that can authorise (spender, from, token) decides.
ExpiryLaw(inclusive) ==
    /\ \A key \in DOMAIN token_approvals, from \in Principals, time \in LookupTimes :
          LET expires_at == token_approvals[key].expires_at
          IN  <<from, key[2]>> \notin DOMAIN collection_approvals =>
                 (is_approved_at(time, key[2], from, key[1])
                     <=> (expires_at = None \/ Valid(inclusive, time, Unwrap(expires_at))))
    /\ \A key \in DOMAIN collection_approvals, t \in TokenIds, time \in LookupTimes :
          LET expires_at == collection_approvals[key].expires_at
          IN  <<t, key[2]>> \notin DOMAIN token_approvals =>
                 (is_approved_at(time, key[2], key[1], t)
                     <=> (expires_at = None \/ Valid(inclusive, time, Unwrap(expires_at))))

\* C11 as stated: an approval stored with expires_at = Some(T) is approved at every
\* time now <= T, now = T included, and at no time now > T; one stored with None
\* is approved at every time.
C11_ExpiryInclusive == ExpiryLaw(TRUE)

\* C11: an approval stored with expires_at = Some(T) is approved at every time
\* now < T and at no time now >= T; one stored with None is approved at every time.
C11_ExpiryExclusive == ExpiryLaw(FALSE)

\* The clock has reached the expiry of a stored approval, which no longer counts.
C11_Witness ==
    \E key \in DOMAIN token_approvals :
        /\ token_approvals[key].expires_at = Some(now)
        /\ key[1] \in DOMAIN nfts
        /\ <<nfts[key[1]].owner, key[2]>> \notin DOMAIN collection_approvals
        /\ ~icrc37_is_approved(key[2], nfts[key[1]].owner, key[1])

\* C12: icrc37_is_approved(spender, owner, token_id) is true exactly when a token
\* approval for (token_id, spender) or a collection approval for (owner, spender)
\* exists whose expires_at is None or greater than now.
C12_IsApprovedIff ==
    \A spender \in Principals, owner \in Principals, token_id \in TokenIds :
        icrc37_is_approved(spender, owner, token_id) <=>
            \/ /\ <<token_id, spender>> \in DOMAIN token_approvals
               /\ \/ token_approvals[<<token_id, spender>>].expires_at = None
                  \/ Unwrap(token_approvals[<<token_id, spender>>].expires_at) > now
            \/ /\ <<owner, spender>> \in DOMAIN collection_approvals
               /\ \/ collection_approvals[<<owner, spender>>].expires_at = None
                  \/ Unwrap(collection_approvals[<<owner, spender>>].expires_at) > now

\* A collection approval alone authorises the spender for its owner and nobody else.
C12_Witness ==
    \E spender \in Principals, owner \in Principals, token_id \in TokenIds :
        /\ icrc37_is_approved(spender, owner, token_id)
        /\ <<token_id, spender>> \notin DOMAIN token_approvals
        /\ \E other \in Principals \ {owner} : ~icrc37_is_approved(spender, other, token_id)

\* The step handles one element of the batch `op`.
ElementOf(op) ==
    /\ call.status = "running"
    /\ call.op = op
    /\ call'.op = op
    /\ call' # call

\* C13: in icrc7_transfer and icrc37_transfer_from every element adds its own
\* outcome at the end of the results, in request order, and leaves the earlier
\* ones; it is judged on the state the earlier elements left; a failing element
\* changes nothing and the batch goes on with the next element.
C13_BatchPartialSuccess ==
    [][ElementOf("icrc7_transfer") \/ ElementOf("icrc37_transfer_from") =>
        /\ Len(call'.results) = Len(call.results) + 1
        /\ IsPrefix(call.results, call'.results)
        /\ call'.status = "running" /\ call'.op = call.op /\ call'.caller = call.caller
        /\ ~IsOk(Last(call'.results)) => UNCHANGED <<now, ledger, approvals, txlog, config>>
        /\ IsOk(Last(call'.results)) => Len(transactions') = Len(transactions) + 1
        /\ call.op = "icrc7_transfer" =>
              \A arg \in TransferArgs : icrc7_transfer(arg) =>
                  (IsOk(Last(call'.results))
                      <=> arg.token_id \in DOMAIN nfts /\ nfts[arg.token_id].owner = call.caller)
        /\ call.op = "icrc37_transfer_from" =>
              \A arg \in TransferFromArgs : icrc37_transfer_from(arg) =>
                  (IsOk(Last(call'.results))
                      <=> /\ arg.token_id \in DOMAIN nfts
                          /\ nfts[arg.token_id].owner = arg.from
                          /\ icrc37_is_approved(call.caller, arg.from, arg.token_id))]_vars

\* A failing element is followed by one that is committed.
C13_Witness ==
    /\ call.op = "icrc7_transfer"
    /\ Len(call.results) = 2
    /\ IsErr(call.results[1], "NotFound")
    /\ IsOk(call.results[2])
    /\ transactions # <<>>
    /\ Last(transactions).operation = <<"standard_transfer">>
    /\ nfts[Last(transactions).token_id].owner = Last(transactions).to

\* C14: an element of icrc37_approve_tokens yields NotFound for a missing token
\* and Unauthorized when the caller is not the owner, leaving approvals and log
\* as they were; otherwise it stores, over any earlier entry, the approval of
\* (token_id, spender) with the given expires_at, leaves every other approval,
\* and returns the approval timestamp.
C14_TokenApproval ==
    [][Running("icrc37_approve_tokens") =>
       \A arg \in ApprovalArgs : icrc37_approve_tokens(arg) =>
        LET t == arg.token_id
            key == <<arg.token_id, arg.spender>>
            r == Last(call'.results)
        IN  /\ t \notin DOMAIN nfts => IsErr(r, "NotFound")
            /\ t \in DOMAIN nfts /\ nfts[t].owner # call.caller => IsErr(r, "Unauthorized")
            /\ ~IsOk(r) => UNCHANGED <<approvals, txlog>>
            /\ t \in DOMAIN nfts /\ nfts[t].owner = call.caller =>
                  /\ r = Ok(now)
                  /\ DOMAIN token_approvals' = DOMAIN token_approvals \cup {key}
                  /\ token_approvals'[key].expires_at = arg.expires_at
                  /\ token_approvals'[key].spender = arg.spender
                  /\ \A other \in DOMAIN token_approvals \ {key} :
                        token_approvals'[other] = token_approvals[other]
                  /\ UNCHANGED collection_approvals]_vars

\* An approval has been stored over an earlier one for the same token and spender.
C14_Witness ==
    /\ call.op = "icrc37_approve_tokens"
    /\ call.results # <<>>
    /\ IsOk(Last(call.results))
    /\ Len(transactions) = 2
    /\ transactions[1].operation = <<"token_approval">>
    /\ transactions[2].operation = <<"token_approval">>
    /\ transactions[1].token_id = transactions[2].token_id
    /\ transactions[1].to = transactions[2].to
    /\ Cardinality(DOMAIN token_approvals) = 1

\* C15: icrc37_approve_collection by the spender itself fails with GenericError,
\* stores nothing and appends no record; otherwise it stores, over any earlier
\* entry, the approval of (caller, spender) and leaves every other approval.
C15_CollectionApproval ==
    [][Handled("icrc37_approve_collection") =>
        LET caller == call'.caller
            args == call'.arg
            key == <<call'.caller, call'.arg.spender>>
            r == call'.results[1]
        IN  /\ caller = args.spender =>
                  IsErr(r, "GenericError") /\ UNCHANGED <<approvals, txlog>>
            /\ caller # args.spender =>
                  /\ IsOk(r)
                  /\ DOMAIN collection_approvals' = DOMAIN collection_approvals \cup {key}
                  /\ collection_approvals'[key].expires_at = args.expires_at
                  /\ collection_approvals'[key].spender = args.spender
                  /\ \A other \in DOMAIN collection_approvals \ {key} :
                        collection_approvals'[other] = collection_approvals[other]
                  /\ UNCHANGED token_approvals]_vars

\* A self-approval was refused while another owner's approval is stored.
C15_Witness ==
    /\ call.op = "icrc37_approve_collection"
    /\ call.status = "replying"
    /\ call.caller = call.arg.spender
    /\ IsErr(call.results[1], "GenericError")
    /\ DOMAIN collection_approvals # {}

\* C16: once a token has been minted, every update_collection_details call that
\* supplies a max_supply is rejected and max_supply keeps its value.
C16_MaxSupplyLock ==
    [][/\ Handled("update_collection_details")
       /\ IsSome(call'.arg.max_supply)
       /\ IssuedTokens # {}
       => /\ ~IsOk(call'.results[1])
          /\ details'.max_supply = details.max_supply]_vars

\* The schedule s qualifies for `user` at the current time, spelled out.
Qualifies(s, user) ==
    /\ s.active = TRUE
    /\ s.start_time = None \/ Unwrap(s.start_time) <= now
    /\ s.end_time = None \/ now <= Unwrap(s.end_time)
    /\ s.whitelist_only = FALSE \/ (user \in DOMAIN whitelist /\ whitelist[user] = TRUE)

QualifyingSchedules(user) == SelectSeq(details.mint_schedules, LAMBDA s : Qualifies(s, user))

\* The four conditions under which a mint of `quantity` by `user` may succeed.
MintAllowed(user, quantity) ==
    /\ details.pricing_enabled
    /\ QualifyingSchedules(user) # <<>>
    /\ details.max_supply = None \/ nft_counter + quantity <= Unwrap(details.max_supply)
    /\ LET price == get_active_mint_price(quantity, QualifyingSchedules(user))
       IN  IsOk(price) /\ IsSome(price[2])

\* The quantity a mint or mint_bundle call asks for.
Requested(c) == IF c.op = "mint" THEN 1 ELSE c.arg.quantity

\* C17: mint and mint_bundle succeed only if pricing is enabled, a schedule
\* qualifies for the caller, the supply has room for the quantity and a
\* qualifying schedule yields a price; when one of these fails the call returns
\* a string error.
C17_MintGating ==
    [][Handled("mint") \/ Handled("mint_bundle") =>
        LET r == call'.results[1]
            allowed == MintAllowed(call'.caller, Requested(call'))
        IN  /\ IsOk(r) => allowed
            /\ ~allowed => r[1] = "Err"]_vars

\* C18: a mint or mint_bundle call that does not succeed, quantity 0 included,
\* allocates no id, changes no ownership set and appends no record: the state is
\* the state before the call.
C18_MintChecksFirst ==
    [][(Handled("mint") \/ Handled("mint_bundle")) /\ ~IsOk(call'.results[1]) =>
        UNCHANGED <<now, ledger, approvals, txlog, config>>]_vars

\* A bundle was refused for lack of supply after a token had been minted.
C18_Witness ==
    /\ call.op = "mint_bundle"
    /\ call.status = "replying"
    /\ IsErr(call.results[1], "Requested quantity exceeds available supply")
    /\ nft_counter = 1
    /\ Len(transactions) = 1

\* C19: a successful mint appends exactly one record, for the minted id; a
\* successful bundle of N appends exactly one record, for the first id of the bundle.
C19_OneRecordPerMint ==
    [][(Handled("mint") \/ Handled("mint_bundle")) /\ IsOk(call'.results[1]) =>
        /\ Len(transactions') = Len(transactions) + 1
        /\ IsPrefix(transactions, transactions')
        /\ Last(transactions').kind = call'.op
        /\ Last(transactions').token_id = MintedIds(call')[1]
        /\ Last(transactions').to = call'.caller]_vars

C19_Witness ==
    /\ MintSucceeded(call)
    /\ call.op = "mint_bundle"
    /\ MintedIds(call) = <<1, 2>>
    /\ Len(transactions) = 1
    /\ transactions[1].kind = "mint_bundle"
    /\ transactions[1].token_id = 1

\* C20: mint, mint_bundle and get_available_bundles take a schedule as qualifying
\* for an identity exactly when it is active, now is inside its window (an unset
\* bound being open) and it is not whitelist_only or the identity is whitelisted.
C20_ScheduleQualification ==
    \A user \in Principals :
        /\ active_schedules(user, now) = QualifyingSchedules(user)
        /\ get_available_bundles(user) =
              IF details.pricing_enabled
              THEN [i \in 1..Len(QualifyingSchedules(user)) |->
                      <<QualifyingSchedules(user)[i], QualifyingSchedules(user)[i].bundle_prices>>]
              ELSE <<>>

\* At its opening time the whitelist sale serves a whitelisted identity and no other.
C20_Witness ==
    /\ details.pricing_enabled
    /\ \E i \in 1..Len(details.mint_schedules) :
          LET s == details.mint_schedules[i]
          IN  /\ s.whitelist_only
              /\ s.start_time = Some(now)
              /\ \E u, v \in Principals :
                    /\ Qualifies(s, u)
                    /\ ~Qualifies(s, v)
                    /\ get_available_bundles(u) # <<>>

\* ---------------------------------------------------------------- C21, C22
\* ceil(a / b) for b > 0, by its defining property.
Ceil(a, b) == CHOOSE n \in 0..a : n * b >= a /\ (n = 0 \/ (n - 1) * b < a)

MinOf(S) == CHOOSE x \in S : \A y \in S : x <= y

\* The tiers of schedule s whose quantity does not exceed q.
EligibleTiers(s, q) ==
    {s.bundle_prices[i] : i \in {j \in 1..Len(s.bundle_prices) : s.bundle_prices[j].quantity <= q}}

\* The eligible tier of s with the largest quantity.
LargestEligible(s, q) ==
    CHOOSE b \in EligibleTiers(s, q) : \A c \in EligibleTiers(s, q) : c.quantity <= b.quantity

\* The schedules of the list that have an eligible tier.
Priced(schedules, q) ==
    {i \in 1..Len(schedules) : EligibleTiers(schedules[i], q) # {}}

\* The reply of the resolver in a state where it has just been applied.
PriceReply == call.results[1]

PriceAsked == call.op = "get_active_mint_price" /\ call.status = "replying"

\* C21: for every requested quantity and every list of qualifying schedules the
\* resolver returns the minimum, over the schedules with an eligible tier, of
\* ceil(quantity / q) * p for the schedule's largest tier (q, p) with q not above
\* the quantity; it returns None exactly when no schedule has an eligible tier.
C21_BestPrice ==
    PriceAsked =>
        LET q == call.arg.quantity
            schedules == call.arg.schedules
        IN  /\ IsOk(PriceReply)
            /\ (PriceReply[2] = None) <=> (Priced(schedules, q) = {})
            /\ PriceReply[2] # None =>
                  Unwrap(PriceReply[2]) =
                     MinOf({Ceil(q, LargestEligible(schedules[i], q).quantity)
                              * LargestEligible(schedules[i], q).price :
                            i \in Priced(schedules, q)})

\* The single schedule with tiers {1:10, 5:40}.
TwoTierSchedule ==
    MintSchedule("Standard", <<BundlePrice(1, 10), BundlePrice(5, 40)>>, None, None, TRUE, FALSE)

ThreeOfTwoTiers ==
    /\ PriceAsked
    /\ call.arg = [quantity |-> 3, schedules |-> <<TwoTierSchedule>>]

\* C22 as stated: with tiers {1:10, 5:40} a request for 3 is priced 10.
C22_ThreeCostsTen == ThreeOfTwoTiers => PriceReply = Ok(Some(10))

\* C22: with tiers {1:10, 5:40} a request for 3 is priced from the tier of
\* quantity 1 (the tier of quantity 5 exceeds 3), three times over: 3 * 10 = 30.
C22_ThreeCostsThirty ==
    ThreeOfTwoTiers =>
        /\ closest_bundle(TwoTierSchedule.bundle_prices, 3) = Some(BundlePrice(1, 10))
        /\ PriceReply = Ok(Some(30))

C22_Witness == ThreeOfTwoTiers /\ IsOk(PriceReply)

\* ---------------------------------------------------------------- C23, C24
Inverted(s) ==
    /\ IsSome(s.start_time)
    /\ IsSome(s.end_time)
    /\ Unwrap(s.start_time) > Unwrap(s.end_time)

\* C23: in every state reachable through update_mint_schedule,
\* remove_mint_schedule and update_collection_details no stored schedule has both
\* bounds set with start > end.
C23_NoInvertedWindow ==
    \A i \in 1..Len(details.mint_schedules) : ~Inverted(details.mint_schedules[i])

\* C24: in every state reachable through update_mint_schedule,
\* remove_mint_schedule and update_collection_details no two stored schedules
\* share a name.
C24_UniqueNames ==
    \A i, j \in 1..Len(details.mint_schedules) :
        details.mint_schedules[i].name = details.mint_schedules[j].name => i = j

\* -------------------------------------------------------------------- C25
\* The request asks for a window that ends at or before its start.
BadWindow(args) ==
    /\ IsSome(args.start_time)
    /\ IsSome(args.end_time)
    /\ Unwrap(args.end_time) <= Unwrap(args.start_time)

Named(schedules, name) == {i \in 1..Len(schedules) : schedules[i].name = name}

\* What the claim says of an update_mint_schedule request args sent by an admin,
\* taking the stored list from old to new with reply r.
Upsert(args, old, new, r) ==
    IF BadWindow(args)
    THEN r[1] = "Err" /\ new = old
    ELSE IF Named(old, args.name) = {}
    THEN /\ IsOk(r)
         /\ new = Append(old, [name |-> args.name,
                               bundle_prices |-> args.bundle_prices,
                               start_time |-> args.start_time,
                               end_time |-> args.end_time,
                               active |-> IF IsSome(args.active)
                                          THEN Unwrap(args.active) ELSE FALSE,
                               whitelist_only |-> IF IsSome(args.whitelist_only)
                                                  THEN Unwrap(args.whitelist_only)
                                                  ELSE FALSE])
    ELSE LET i == CHOOSE k \in Named(old, args.name) : \A j \in Named(old, args.name) : k <= j
         IN  /\ IsOk(r)
             /\ Len(new) = Len(old)
             /\ \A j \in 1..Len(old) : j # i => new[j] = old[j]
             /\ new[i].name = args.name
             /\ new[i].bundle_prices = args.bundle_prices
             /\ new[i].start_time = IF IsSome(args.start_time)
                                    THEN args.start_time ELSE old[i].start_time
             /\ new[i].end_time = IF IsSome(args.end_time)
                                  THEN args.end_time ELSE old[i].end_time
             /\ new[i].active = IF IsSome(args.active)
                                THEN Unwrap(args.active) ELSE old[i].active
             /\ new[i].whitelist_only = IF IsSome(args.whitelist_only)
                                        THEN Unwrap(args.whitelist_only)
                                        ELSE old[i].whitelist_only

AdminUpsert == Handled("update_mint_schedule") /\ is_admin(call'.caller)

\* C25 as stated: every update_mint_schedule request by an admin is an upsert,
\* whatever its name: a name not yet present appends one schedule with the
\* defaults active = false and whitelist_only = false, a name already present
\* replaces the tiers and the provided fields only, a window with end not after
\* start is rejected with no change.
C25_UpsertAnyName ==
    [][AdminUpsert =>
         /\ Upsert(call'.arg, details.mint_schedules, details'.mint_schedules,
                   call'.results[1])
         /\ details'.max_supply = details.max_supply
         /\ details'.pricing_enabled = details.pricing_enabled]_vars

\* C25: an update_mint_schedule request by an admin with a non-empty name is an
\* upsert: a name not yet present appends exactly one schedule with the given
\* fields and the defaults active = false, whitelist_only = false; a name
\* already present replaces that schedule's tiers and only the provided fields,
\* leaving omitted fields and all other schedules unchanged; a request with both
\* bounds given and end not after start is rejected with no change. A request
\* with an empty name is rejected with no change.
C25_Upsert ==
    [][AdminUpsert =>
         /\ IF call'.arg.name = ""
            THEN call'.results[1][1] = "Err" /\ details' = details
            ELSE Upsert(call'.arg, details.mint_schedules, details'.mint_schedules,
                        call'.results[1])
         /\ details'.max_supply = details.max_supply
         /\ details'.pricing_enabled = details.pricing_enabled]_vars

\* All three cases have happened: Sale was appended with the defaults, Standard
\* was updated in place keeping its closing time, and a request with a window
\* ending at its start has just been rejected.
C25_Witness ==
    /\ call.op = "update_mint_schedule"
    /\ call.status = "replying"
    /\ is_admin(call.caller)
    /\ BadWindow(call.arg)
    /\ call.results[1][1] = "Err"
    /\ \E i \in 1..Len(details.mint_schedules) :
          /\ details.mint_schedules[i].name = "Sale"
          /\ ~details.mint_schedules[i].active
          /\ ~details.mint_schedules[i].whitelist_only
    /\ \E i \in 1..Len(details.mint_schedules) :
          /\ details.mint_schedules[i].name = "Standard"
          /\ details.mint_schedules[i].start_time = Some(2)
          /\ details.mint_schedules[i].end_time = Some(1)

\* ---------------------------------------------------------------- C26, C27
\* The elements of the finite set S of numbers in ascending order.
Ascending(S) ==
    CHOOSE o \in [1..Cardinality(S) -> S] : \A i, j \in 1..Cardinality(S) : i < j => o[i] < o[j]

\* The page the claims describe: the smallest min(take, 100) elements of S in
\* ascending order, take defaulting to 10.
Page(S, take) ==
    Take(Ascending(S),
         IF unwrap_or(take, DEFAULT_TAKE_VALUE) < MAX_TAKE_VALUE
         THEN unwrap_or(take, DEFAULT_TAKE_VALUE) ELSE MAX_TAKE_VALUE)

\* The ids in the Vec that OWNER_TOKENS keeps for p.
OwnedIds(p) ==
    IF p \in DOMAIN owner_tokens
    THEN {owner_tokens[p][i] : i \in 1..Len(owner_tokens[p])} ELSE {}

\* C26: icrc7_tokens_of(owner, prev, take) returns, in ascending id order, the
\* smallest min(take, 100) ids owned by owner that are strictly greater than
\* prev (prev absent: from the beginning; take absent: 10).
C26_TokensOfPage ==
    \A p \in Principals, prev \in Cursors, take \in PageSizes :
        icrc7_tokens_of([owner |-> p], prev, take)
          = Page({t \in OwnedIds(p) : t > unwrap_or(prev, 0)}, take)

\* C27: icrc7_tokens(prev, take) returns, in ascending id order, the smallest
\* min(take, 100) ids among all issued token ids that are greater than or equal
\* to prev (prev absent: from the beginning; take absent: 10).
C27_TokensPage ==
    \A prev \in Cursors, take \in PageSizes :
        \A reply \in icrc7_tokens(prev, take) :
            reply = Page({t \in IssuedTokens : t >= unwrap_or(prev, 0)}, take)

\* -------------------------------------------------------------------- C28
Queries ==
    {"icrc7_owner_of", "icrc7_balance_of", "icrc7_tokens", "icrc7_tokens_of",
     "icrc7_total_supply", "icrc37_is_approved", "icrc3_get_transactions",
     "icrc3_get_transaction", "get_mint_schedules", "get_available_bundles"}

\* C28: no query changes the ledger, the approvals, the log, the schedules or
\* any other state; icrc37_is_approved leaves expired approvals where they are.
C28_QueriesNeverMutate ==
    [][(\E q \in Queries : Handled(q)) =>
          UNCHANGED <<now, ledger, approvals, txlog, config>>]_vars

\* icrc37_is_approved has just answered false for an approval that has expired,
\* and the approval is still stored.
C28_Witness ==
    /\ call.op = "icrc37_is_approved"
    /\ call.status = "replying"
    /\ call.arg.spender.owner = "p2"
    /\ call.arg.token_id = 1
    /\ call.results = <<FALSE>>
    /\ <<1, "p2">> \in DOMAIN token_approvals
    /\ ~NotExpired(token_approvals[<<1, "p2">>].expires_at)

\* -------------------------------------------------------------------- C30
\* The positions of the log, counted from 0, that a request asks for and that
\* exist.
AskedPositions(request) ==
    LET start == IF IsSome(request.start) THEN Unwrap(request.start) ELSE 0
        asked == IF IsSome(request.length) THEN Unwrap(request.length) ELSE 10
        length == IF asked < 100 THEN asked ELSE 100
    IN  {i \in start..(start + length - 1) : i < Len(transactions)}

\* C30: icrc3_get_transactions({start, length}) returns the records at positions
\* start .. start + min(length, 100) - 1 of the log that exist, in log order
\* (start absent: 0; length absent: 10; start beyond the log: nothing), and
\* total is the length of the whole log.
C30_RangeQuery ==
    (call.op = "icrc3_get_transactions" /\ call.status = "replying") =>
        LET request == call.arg
            reply == call.results[1]
            start == IF IsSome(request.start) THEN Unwrap(request.start) ELSE 0
        IN  /\ reply.total = Len(transactions)
            /\ Len(reply.transactions) = Cardinality(AskedPositions(request))
            /\ \A k \in 1..Len(reply.transactions) :
                  /\ start + k - 1 \in AskedPositions(request)
                  /\ reply.transactions[k] = transactions[start + k]

\* 101 records were asked of a log of 101 records, and 100 came back.
C30_Witness ==
    /\ call.op = "icrc3_get_transactions"
    /\ call.status = "replying"
    /\ call.arg = [start |-> Some(0), length |-> Some(101)]
    /\ Len(transactions) = 101
    /\ Len(call.results[1].transactions) = 100
    /\ call.results[1].total = 101

\* -------------------------------------------------------------------- C29
\* One element of a batch handler, or one call of a single-request handler, of
\* operation op has just succeeded.
Succeeded(op) ==
    \/ /\ ElementOf(op)
       /\ Len(call'.results) = Len(call.results) + 1
       /\ IsOk(Last(call'.results))
    \/ /\ Handled(op)
       /\ Len(call'.results) = 1
       /\ IsOk(call'.results[1])

LoggedOps ==
    {"icrc7_transfer", "icrc37_transfer_from", "icrc37_approve_tokens",
     "icrc37_approve_collection", "mint", "mint_bundle"}

AdminOps == {"update_mint_schedule", "remove_mint_schedule", "update_collection_details"}

\* C29: every successful icrc7_transfer, icrc37_transfer_from,
\* icrc37_approve_tokens, icrc37_approve_collection, mint, mint_bundle,
\* update_mint_schedule, remove_mint_schedule and update_collection_details
\* appends at least one record to the transaction log.
C29_EveryChangeLogged ==
    [][\A op \in LoggedOps \cup AdminOps :
          Succeeded(op) => /\ Len(transactions') > Len(transactions)
                           /\ IsPrefix(transactions, transactions')]_vars

\* -------------------------------------------------------------------- C31
\* C31: for every token with a non-empty transfer history the `to` of the last
\* entry is the token's current owner, and a history only grows: every step
\* keeps the entries it had, unchanged and in place.
C31_HistoryConsistent ==
    [][\A t \in DOMAIN nfts :
          /\ t \in DOMAIN nfts'
          /\ IsPrefix(nfts[t].transfer_history, nfts'[t].transfer_history)
          /\ nfts'[t].transfer_history # <<>> =>
                Last(nfts'[t].transfer_history).to = nfts'[t].owner]_vars

\* A token has changed hands twice and is now with p3.
C31_Witness ==
    \E t \in DOMAIN nfts :
        /\ Len(nfts[t].transfer_history) = 2
        /\ nfts[t].transfer_history[1].to # nfts[t].owner
        /\ nfts[t].owner = "p3"

\* -------------------------------------------------------------------- C32
\* C32: pre_upgrade followed by post_upgrade restores every component of the
\* state to its value before the upgrade, the counter from which mint allocates
\* token ids included, so that no id issued after the upgrade repeats an id
\* issued before it.
C32_UpgradeRoundTrip ==
    [][/\ Handled("post_upgrade") =>
             UNCHANGED <<now, ledger, approvals, txlog, config>>
       /\ \A op \in {"mint", "mint_bundle"} :
             (Handled(op) /\ IsOk(call'.results[1])) =>
                 \A p \in Principals : \A i \in 1..Len(MintedIds(call')) :
                     OwnedCount(owner_tokens, p, MintedIds(call')[i]) = 0]_vars

\* -------------------------------------------------------------------- C33
\* C33: for every schedule configuration that update_mint_schedule or
\* update_collection_details accepts, a tier of quantity 0 included, mint and
\* mint_bundle (and the price resolver they call) reply with a success or an
\* error and never abort.
C33_NeverTraps ==
    (call.status = "replying" /\ call.op \in {"mint", "mint_bundle"}) =>
        \A i \in 1..Len(call.results) : ~IsTrap(call.results[i])

\* -------------------------------------------------------------------- C34
\* The log shows that B has approved S for token t or for its whole collection.
Granted(B, S, t) ==
    \E i \in 1..Len(transactions) :
        /\ transactions[i].kind = "approve"
        /\ transactions[i].from = B
        /\ transactions[i].to = S
        /\ transactions[i].token_id \in {t, 0}

\* C34: a token approval (t, S) authorizes icrc37_transfer_from only while the
\* identity that granted it owns t: whenever a spender S is authorized to
\* move t away from its current owner B, another identity, it is B that has
\* approved S.
C34_ApprovalBoundToGranter ==
    \A t \in DOMAIN nfts, S \in Principals :
        (S # nfts[t].owner /\ icrc37_transfer_from_check(S, nfts[t].owner, t) = "Ok") =>
            Granted(nfts[t].owner, S, t)

\* ---------------------------------------------------------------- C35, C36
\* The sum of icrc7_balance_of over the identities of S.
RECURSIVE BalanceSum(_)
BalanceSum(S) ==
    IF S = {} THEN 0
    ELSE LET p == CHOOSE q \in S : TRUE
         IN  icrc7_balance_of(p) + BalanceSum(S \ {p})

\* C35: icrc7_total_supply equals the number of tokens issued by mint and
\* mint_bundle, which is the counter the max-supply check reads, and equals the
\* sum of icrc7_balance_of over all identities.
C35_SupplyAccounting ==
    /\ icrc7_total_supply = nft_counter
    /\ icrc7_total_supply = BalanceSum(Principals)

\* C36: whenever max_supply is set, the number of tokens issued so far does not
\* exceed it.
C36_SupplyCap ==
    IsSome(details.max_supply) =>
        /\ nft_counter <= Unwrap(details.max_supply)
        /\ Cardinality(IssuedTokens) <= Unwrap(details.max_supply)

\* -------------------------------------------------------------------- C37
\* C37: for every quantity of the word, mint_bundle passes its max-supply
\* check only if quantity <= max_supply - minted_count; the sum
\* minted_count + quantity never wraps around so as to admit an oversized
\* request.
C37_SupplyHeadroom ==
    (/\ call.op = "supply_check"
     /\ call.status = "replying"
     /\ IsSome(call.arg.max_supply)
     /\ IsOk(call.results[1])) =>
        /\ call.arg.minted_count <= Unwrap(call.arg.max_supply)
        /\ call.arg.quantity <= Unwrap(call.arg.max_supply) - call.arg.minted_count

\* -------------------------------------------------------------------- C38
\* C38: an identity that is not an admin becomes one only as the `user` of an
\* add_admin call made by a System admin; no call made by a non-admin adds an
\* entry to the admin set.
C38_AdminsGrantedBySystemAdmins ==
    [][/\ \A p \in Principals :
             (~is_admin(p) /\ p \in DOMAIN admins') =>
                 /\ Handled("add_admin")
                 /\ call'.arg.user = p
                 /\ is_system_admin(call'.caller)
       /\ (call'.status = "replying" /\ ~is_admin(call'.caller)) =>
             DOMAIN admins' \subseteq DOMAIN admins]_vars

\* -------------------------------------------------------------------- C39
\* C39: in every state reachable by add_admin and remove_admin calls the admin
\* set holds at least one admin of type System.
C39_SystemAdminRemains == count_system_admins >= 1

\* -------------------------------------------------------------------- C40
\* C40: remove_mint_schedule by an admin with a non-empty name that matches no
\* schedule returns an error and leaves the list unchanged; with a name that
\* matches it returns Ok and removes exactly the schedules of that name, the
\* others keeping their order.
C40_RemoveSchedule ==
    [][(/\ Handled("remove_mint_schedule")
        /\ is_admin(call'.caller)
        /\ call'.arg # "") =>
          LET name == call'.arg
              old == details.mint_schedules
              new == details'.mint_schedules
          IN  IF Named(old, name) = {}
              THEN /\ call'.results[1][1] = "Err"
                   /\ new = old
              ELSE /\ IsOk(call'.results[1])
                   /\ new = SelectSeq(old, LAMBDA s : s.name # name)]_vars

====
